---- MODULE Spec2Model ----
(***************************************************************************)
(* Session-room connection manager of the LearningPlatform backend:        *)
(*   backend/src/services/ws_manager.py  (WebSocketManager)                *)
(*   backend/src/main.py                 (websocket_session,               *)
(*                                        trigger_quiz_to_session)         *)
(*   backend/src/routers/live.py         (trigger_question)                *)
(*                                                                         *)
(* All handlers are coroutines of one event loop: a handler runs           *)
(* atomically from one await of I/O to the next, so every action below is  *)
(* the code between two suspension points.  Timestamps, display names and  *)
(* e-mail addresses are not modelled; message payloads are abstracted to   *)
(* the identity of the handler that sent them.                             *)
(***************************************************************************)
EXTENDS Integers, Sequences, FiniteSets, TLC

\* ------------------------------------------------------------------------
\* Universe of the model
\* ------------------------------------------------------------------------
\* Room keys: "A" is the zoomMeetingId and "B" the Mongo _id of one session
\* record, so they are aliases of the same logical session.
RoomKeys == {"A", "B"}

Students == {"s1", "s2", "instructor_1"}

\* Transport handles (one WebSocket object per connection).
WS == {"w1", "w2", "w3", "w4"}

\* The student_id path parameter of the connection: w1 and w2 are two
\* connections of the same student (a reconnect with a fresh transport).
wsStudent(w) ==
    CASE w = "w1" -> "s1"
      [] w = "w2" -> "s1"
      [] w = "w3" -> "s2"
      [] OTHER    -> "instructor_1"

\* The session_id path parameters a connection may be opened with.
wsRooms(w) ==
    CASE w = "w3" -> RoomKeys
      [] w = "w4" -> {"B"}
      [] OTHER    -> {"A"}

\* The connections of students (w4 is the instructor's).
StudentWS == {"w1", "w2", "w3"}

\* One connection per participant.
SingleWS == {"w1", "w3", "w4"}

\* Handlers of POST /ws/trigger-session/{session_id} that may run.
Broadcasts == {"b1"}

\* The trigger_quiz_to_session requests that may overlap.
AllBroadcasts == {"b1", "b2"}

\* Deleted entries one room dict object may hold.  A CPython dict of at
\* most 5 insertions is never resized: deleted entries stay as holes and
\* new keys are appended behind them.
MaxHoles == 1

VARIABLES
    session_rooms,   \* WebSocketManager.session_rooms
    wsOpen,          \* is the client end of the transport still connected
    wsPc,            \* position of the websocket_session handler of a transport
    wsRoom,          \* session_id path parameter of the connection
    bc,              \* trigger_quiz_to_session / broadcast_to_session frames
    tq,              \* trigger_question frame (live.py)
    global_connections, \* WebSocketManager.global_connections
    gOpen,           \* is the client end of a global transport still connected
    gPc,             \* position of the websocket_global handler of a transport
    gb,              \* test_ws / broadcast_global frame
    active_sessions,    \* AdaptiveQuestionScheduler.active_sessions
    student_schedules,  \* AdaptiveQuestionScheduler.student_schedules
    now,             \* datetime.utcnow(), in seconds
    model_loaded,    \* EngagementPredictor.model_loaded
    inbox            \* the messages each transport has been handed, in order

globalVars == <<global_connections, gOpen, gPc, gb>>
schedVars == <<active_sessions, student_schedules, now, model_loaded>>
roomVars == <<session_rooms, wsOpen, wsPc, wsRoom, bc, tq, inbox>>

vars == <<session_rooms, wsOpen, wsPc, wsRoom, bc, tq, global_connections, gOpen,
          gPc, gb, active_sessions, student_schedules, now, model_loaded, inbox>>

\* ------------------------------------------------------------------------
\* The room dict {studentId: participant}.  A dict is an insertion-ordered
\* sequence of entry slots; `del` leaves a hole.
\* ------------------------------------------------------------------------
Hole == [sid |-> "-", ws |-> "-", status |-> "deleted"]

Participant(w, s) == [sid |-> s, ws |-> w, status |-> "joined"]

LiveIdx(room) == {i \in 1..Len(room) : room[i].status # "deleted"}

\* len(dict)
DictLen(room) == Cardinality(LiveIdx(room))

\* student_id in dict
HasKey(room, s) == \E i \in LiveIdx(room) : room[i].sid = s

KeyIdx(room, s) == CHOOSE i \in LiveIdx(room) : room[i].sid = s

\* session_id in self.session_rooms and student_id in self.session_rooms[session_id]
Present(rooms, k, s) == k \in DOMAIN rooms /\ HasKey(rooms[k], s)

Entry(rooms, k, s) == rooms[k][KeyIdx(rooms[k], s)]

\* self.session_rooms with session_rooms[k] bound to room
SetRoom(rooms, k, room) ==
    [x \in DOMAIN rooms \cup {k} |-> IF x = k THEN room ELSE rooms[x]]

\* del self.session_rooms[k]
DelRoom(rooms, k) == [x \in DOMAIN rooms \ {k} |-> rooms[x]]

\* Mutant of join_session_room: a duplicate join keeps the existing entry.
join_session_room_keep(rooms, w, k, s) ==
    LET base == IF k \in DOMAIN rooms THEN rooms[k] ELSE << >>
    IN  IF HasKey(base, s) THEN rooms
        ELSE SetRoom(rooms, k, Append(base, Participant(w, s)))

\* join_session_room: the registry after the call
join_session_room(rooms, w, k, s) ==
    LET base == IF k \in DOMAIN rooms THEN rooms[k] ELSE << >>
        room == IF HasKey(base, s)
                THEN [base EXCEPT ![KeyIdx(base, s)] = Participant(w, s)]
                ELSE Append(base, Participant(w, s))
    IN  SetRoom(rooms, k, room)

\* join_session_room: the participantCount of the dict it returns,
\* len(self.session_rooms[session_id]) after the assignment
join_session_room_participantCount(rooms, w, k, s) ==
    DictLen(join_session_room(rooms, w, k, s)[k])

\* Mutant of leave_session_room: the entry is deleted.
leave_session_room_drop(rooms, k, s) ==
    IF Present(rooms, k, s)
    THEN [rooms EXCEPT ![k][KeyIdx(rooms[k], s)] = Hole]
    ELSE rooms

\* leave_session_room: the value returned
leave_session_room_returns(rooms, k, s) ==
    IF Present(rooms, k, s) THEN TRUE ELSE FALSE

\* leave_session_room: the registry after the call
leave_session_room(rooms, k, s) ==
    IF Present(rooms, k, s)
    THEN [rooms EXCEPT ![k][KeyIdx(rooms[k], s)].status = "left"]
    ELSE rooms

\* Mutant of remove_from_session_room: an emptied room is kept.
remove_from_session_room_keep(rooms, k, s) ==
    IF Present(rooms, k, s)
    THEN [rooms EXCEPT ![k][KeyIdx(rooms[k], s)] = Hole]
    ELSE rooms

\* remove_from_session_room: the registry after the call
remove_from_session_room(rooms, k, s) ==
    IF Present(rooms, k, s)
    THEN LET room == [rooms[k] EXCEPT ![KeyIdx(rooms[k], s)] = Hole]
         IN  IF DictLen(room) = 0
             THEN DelRoom(rooms, k)
             ELSE [rooms EXCEPT ![k] = room]
    ELSE rooms

\* is_in_session_room
is_in_session_room(rooms, k, s) ==
    IF k \notin DOMAIN rooms THEN FALSE
    ELSE IF ~HasKey(rooms[k], s) THEN FALSE
    ELSE Entry(rooms, k, s).status = "joined"

RECURSIVE JoinedFrom(_, _)
JoinedFrom(room, i) ==
    IF i > Len(room) THEN << >>
    ELSE IF room[i].status = "joined"
         THEN <<room[i].sid>> \o JoinedFrom(room, i + 1)
         ELSE JoinedFrom(room, i + 1)

\* get_session_participants: the studentIds of the "joined" entries, in
\* dict order
get_session_participants(rooms, k) ==
    IF k \notin DOMAIN rooms THEN << >> ELSE JoinedFrom(rooms[k], 1)

\* get_session_participant_count
get_session_participant_count(rooms, k) == Len(get_session_participants(rooms, k))


\* ------------------------------------------------------------------------
\* broadcast_to_session: `for student_id, data in dict.items()` is a live
\* iterator over the room dict, suspended at every `await send_json`.
\* ------------------------------------------------------------------------
NextEntry(room, pos) ==
    IF \E i \in LiveIdx(room) : i > pos
    THEN CHOOSE i \in LiveIdx(room) : i > pos /\ \A j \in LiveIdx(room) : j > pos => i <= j
    ELSE 0

\* Mutant of Scan: the loop body does not skip the entries that are not
\* "joined".
RECURSIVE Scan_all(_, _, _)
Scan_all(room, pos, di_len) ==
    LET i == NextEntry(room, pos)
    IN  IF i = 0 THEN [kind |-> "stop", pos |-> pos, len |-> di_len]
        ELSE IF di_len = 0 THEN [kind |-> "error", pos |-> pos, len |-> di_len]
        ELSE [kind |-> "yield", pos |-> i, len |-> di_len - 1]

\* next() of the dict iterator, repeated over the entries the loop body
\* skips with `continue` (status != "joined").  The iterator raises
\* RuntimeError when it finds an entry after it has yielded as many entries
\* as the dict had when the iteration began.
RECURSIVE Scan(_, _, _)
Scan(room, pos, di_len) ==
    LET i == NextEntry(room, pos)
    IN  IF i = 0 THEN [kind |-> "stop", pos |-> pos, len |-> di_len]
        ELSE IF di_len = 0 THEN [kind |-> "error", pos |-> pos, len |-> di_len]
        ELSE IF room[i].status = "joined"
             THEN [kind |-> "yield", pos |-> i, len |-> di_len - 1]
             ELSE Scan(room, i, di_len - 1)

\* Mutant of LeaveAll: the dead connections are not cleaned up.
LeaveAll_none(rooms, k, dead) == rooms

\* `for student_id in dead_connections: self.leave_session_room(...)`
RECURSIVE LeaveAll(_, _, _)
LeaveAll(rooms, k, dead) ==
    IF dead = << >> THEN rooms
    ELSE LeaveAll(leave_session_room(rooms, k, Head(dead)), k, Tail(dead))

\* Frame of one trigger_quiz_to_session call.  attempts, delivered,
\* snapshot, quiet and rejoined are history of the call kept for the
\* properties: the sends started, the sends that succeeded, the Joined
\* participants when the broadcast began, whether no other handler has
\* changed the room since, and the students that joined the room over
\* another transport after their send in this broadcast had failed.  order
\* is the number of broadcasts that had been requested before this one,
\* existed whether the room was in session_rooms when this one began.
IdleBc ==
    [pc |-> "idle", session_id |-> "A", di_pos |-> 0, di_used |-> 0, di_len |-> 0,
     detached |-> FALSE, student_id |-> "-", websocket |-> "-", sent |-> 0,
     dead_connections |-> << >>, attempts |-> << >>, delivered |-> << >>,
     snapshot |-> << >>, quiet |-> TRUE, rejoined |-> {},
     raised |-> FALSE, success |-> FALSE, participants |-> << >>, order |-> 0,
     existed |-> FALSE]

\* The loop of broadcast_to_session from one next() of the iterator up to
\* the next await (or to the return), followed by the rest of
\* trigger_quiz_to_session.  Yields <<frame, registry>>.
Advance(f, rooms) ==
    LET k    == f.session_id
        room == IF f.detached THEN << >> ELSE rooms[k]
    IN  IF DictLen(room) # f.di_used
        THEN \* RuntimeError: dictionary changed size during iteration;
             \* caught by `except Exception` of trigger_quiz_to_session
             <<[f EXCEPT !.pc = "done", !.raised = TRUE, !.success = FALSE], rooms>>
        ELSE LET r == Scan(room, f.di_pos, f.di_len)
             IN  CASE r.kind = "error" ->
                        <<[f EXCEPT !.pc = "done", !.raised = TRUE, !.success = FALSE], rooms>>
                   [] r.kind = "yield" ->
                        <<[f EXCEPT !.pc = "sending", !.di_pos = r.pos, !.di_len = r.len,
                                    !.student_id = room[r.pos].sid,
                                    !.websocket = room[r.pos].ws,
                                    !.attempts = Append(@,
                                        [sid |-> room[r.pos].sid, ws |-> room[r.pos].ws,
                                         member |-> is_in_session_room(rooms, k, room[r.pos].sid)])],
                          rooms>>
                   [] OTHER ->
                        LET after == LeaveAll(rooms, k, f.dead_connections)
                        IN  <<[f EXCEPT !.pc = "done", !.di_pos = r.pos, !.di_len = r.len,
                                        !.success = TRUE,
                                        !.participants = get_session_participants(after, k)],
                              after>>

\* The JSON body trigger_quiz_to_session returns from frame f (the message
\* text repeats sentTo).
TriggerResult(f) ==
    IF f.success
    THEN [success |-> TRUE, sessionId |-> f.session_id, sentTo |-> f.sent,
          participants |-> f.participants]
    ELSE [success |-> FALSE, sessionId |-> "-", sentTo |-> 0, participants |-> << >>]

\* The inboxes after broadcast b reached frame f: a send_json that has just
\* been called hands the message of b to its transport (which delivers what
\* it is handed in that order for as long as the client is connected).
Handed(box, b, f) ==
    IF f.pc = "sending"
    THEN [box EXCEPT ![f.websocket] = Append(@, b)]
    ELSE box

\* What the suspended broadcasts see of a change of the registry made by
\* another handler: an iterator keeps the dict object it was created on, so
\* it is detached when its room is deleted from session_rooms.
Observe(frames, old, new) ==
    [b \in DOMAIN frames |->
        LET f == frames[b]
            k == f.session_id
            fresh == {s \in {f.dead_connections[i] : i \in 1..Len(f.dead_connections)} :
                        /\ is_in_session_room(new, k, s)
                        /\ \/ ~Present(old, k, s)
                           \/ Entry(old, k, s).ws # Entry(new, k, s).ws}
        IN  IF f.pc # "sending" THEN f
            ELSE IF k \notin DOMAIN new
                 THEN [f EXCEPT !.detached = TRUE, !.quiet = FALSE]
                 ELSE IF k \in DOMAIN old /\ old[k] = new[k] THEN f
                 ELSE [f EXCEPT !.quiet = FALSE, !.rejoined = @ \cup fresh]]

\* ------------------------------------------------------------------------
\* trigger_question (routers/live.py)
\* ------------------------------------------------------------------------
\* The session record of the database: zoomMeetingId "A" when the session
\* has a Zoom meeting, _id "B".
ZoomId == "A"
MongoId == "B"

\* Outcomes of db.database.questions.find and of the find_one calls on
\* db.database.sessions.
QuestionOutcomes == {"some", "none", "error"}
LookupOutcomes == {"found", "missing", "error"}

IsInstructor(s) == s = "instructor_1"

\* Append x unless it is in the list (`if x and x not in session_ids_to_check`).
AppendNew(seq, x) == IF \E i \in 1..Len(seq) : seq[i] = x THEN seq ELSE Append(seq, x)

\* Mutant of session_ids_to_check: the ids of the record are not added.
session_ids_to_check_single(meeting_id, lookup, hasZoom) == <<meeting_id>>

\* Mutant of session_ids_to_check: without the session record no id is
\* checked.
session_ids_to_check_closed(meeting_id, lookup, hasZoom) ==
    IF lookup = "found"
    THEN LET withZoom == IF hasZoom THEN AppendNew(<<meeting_id>>, ZoomId)
                         ELSE <<meeting_id>>
         IN  AppendNew(withZoom, MongoId)
    ELSE << >>

\* session_ids_to_check: the supplied id, then the zoomMeetingId and the _id
\* of the session record when a lookup found it.  A lookup that raises is
\* caught (`except Exception as lookup_error`) and leaves the list as it is.
session_ids_to_check(meeting_id, lookup, hasZoom) ==
    IF lookup = "found"
    THEN LET withZoom == IF hasZoom THEN AppendNew(<<meeting_id>>, ZoomId)
                         ELSE <<meeting_id>>
         IN  AppendNew(withZoom, MongoId)
    ELSE <<meeting_id>>

\* ws_manager.get_session_participants_by_multiple_ids: the Joined
\* participants of every listed room, each with the key it is registered
\* under, in the order of the list.
RECURSIVE get_session_participants_by_multiple_ids(_, _)
get_session_participants_by_multiple_ids(rooms, ids) ==
    IF ids = << >> THEN << >>
    ELSE LET k == Head(ids)
             joined == get_session_participants(rooms, k)
         IN  [i \in 1..Len(joined) |-> [sessionId |-> k, studentId |-> joined[i]]]
             \o get_session_participants_by_multiple_ids(rooms, Tail(ids))

\* participant_counts[sid]
CountFor(participants, k) ==
    Cardinality({i \in 1..Len(participants) : participants[i].sessionId = k})

\* The keys of participant_counts in insertion order.
RECURSIVE CountKeys(_)
CountKeys(participants) ==
    IF participants = << >> THEN << >>
    ELSE LET rest == CountKeys(SubSeq(participants, 1, Len(participants) - 1))
         IN  AppendNew(rest, participants[Len(participants)].sessionId)

\* Mutant of effective_meeting_id: the supplied id is kept.
effective_meeting_id_supplied(meeting_id, participants) == meeting_id

\* effective_meeting_id: max(participant_counts.items(), key=count)[0], the
\* first key with the largest count; the supplied id when nobody is found.
effective_meeting_id(meeting_id, participants) ==
    IF participants = << >> THEN meeting_id
    ELSE LET keys == CountKeys(participants)
             best == CHOOSE i \in 1..Len(keys) :
                        /\ \A j \in 1..Len(keys) :
                              CountFor(participants, keys[j]) <= CountFor(participants, keys[i])
                        /\ \A j \in 1..(i - 1) :
                              CountFor(participants, keys[j]) < CountFor(participants, keys[i])
         IN  keys[best]

\* student_participants: the participants whose id does not start with
\* "instructor_"
RECURSIVE student_participants(_)
student_participants(participants) ==
    IF participants = << >> THEN << >>
    ELSE IF IsInstructor(Head(participants).studentId)
         THEN student_participants(Tail(participants))
         ELSE <<Head(participants)>> \o student_participants(Tail(participants))

\* Frame of one trigger_question call.  calls (the
\* send_to_student_in_session calls made, in order), joinedAtStart (who
\* was "joined" under which key when the participants were collected) and
\* the inputs are kept for the properties.
IdleTq ==
    [pc |-> "idle", request |-> "A", questions |-> "some", lookup |-> "found",
     hasZoom |-> TRUE, session_ids |-> << >>, participants |-> << >>,
     students |-> << >>, effective |-> "A", idx |-> 0, phase |-> "-",
     key |-> "-", websocket |-> "-", ws_sent_count |-> 0, calls |-> << >>,
     joinedAtStart |-> {}, result |-> "-"]

\* Mutant of student_session_id: the supplied id is used for every student.
student_session_id_supplied(f, i) == f.request

\* student_session_id = participant.get("sessionId", meeting_id)
student_session_id(f, i) == f.students[i].sessionId

\* ws_manager.send_to_student_in_session up to its send: the websocket it
\* sends on, or "-" when it returns False at once because the student is
\* not "joined" under the key.
send_to_student_in_session(rooms, k, s) ==
    IF is_in_session_room(rooms, k, s) THEN Entry(rooms, k, s).ws ELSE "-"

\* ws_manager.send_to_student_in_session after its send: a failed send is an
\* implicit disconnect of the student under the key.
send_to_student_in_session_done(rooms, k, s, ok) ==
    IF ok THEN rooms ELSE leave_session_room(rooms, k, s)

\* The send loop of trigger_question from a call of
\* send_to_student_in_session up to the next await of a transport (or to the
\* return).  Yields the frame.
RECURSIVE TqCall(_, _, _, _)
RECURSIVE TqAfter(_, _, _)
TqCall(f, rooms, k, phase) ==
    LET s == f.students[f.idx].studentId
        g == [f EXCEPT !.calls = Append(@, [key |-> k, sid |-> s, phase |-> phase]),
                       !.phase = phase, !.key = k]
        w == send_to_student_in_session(rooms, k, s)
    IN  IF w # "-"
        THEN [g EXCEPT !.pc = "sending", !.websocket = w]
        ELSE TqAfter(g, rooms, FALSE)

\* After send_to_student_in_session returned `sent`: the fallback call with
\* the effective id, the count, and the next participant.
TqAfter(f, rooms, sent) ==
    IF ~sent /\ f.phase = "primary" /\ student_session_id(f, f.idx) # f.effective
    THEN TqCall(f, rooms, f.effective, "fallback")
    ELSE LET g == IF sent THEN [f EXCEPT !.ws_sent_count = @ + 1] ELSE f
         IN  IF f.idx = Len(f.students)
             THEN [g EXCEPT !.pc = "done", !.result = "sent"]
             ELSE LET h == [g EXCEPT !.idx = @ + 1]
                  IN  TqCall(h, rooms, student_session_id(h, h.idx), "primary")

\* ------------------------------------------------------------------------
\* The global set (ws_manager.py) and websocket_global / test_ws (main.py)
\* ------------------------------------------------------------------------
\* The transports that connect to /ws/global/{student_id}.
GWS == {"g1", "g2", "g3"}

\* disconnect_global: the set after the call
disconnect_global(conns, g) ==
    IF g \in conns THEN conns \ {g} ELSE conns

\* `for ws in dead: self.global_connections.remove(ws)`: set.remove raises
\* KeyError for an element that is not in the set, which ends the loop.
RECURSIVE remove_dead(_, _)
remove_dead(conns, dead) ==
    IF dead = << >> THEN [conns |-> conns, raised |-> FALSE]
    ELSE IF Head(dead) \notin conns THEN [conns |-> conns, raised |-> TRUE]
    ELSE remove_dead(conns \ {Head(dead)}, Tail(dead))

\* Frame of one broadcast_global call: todo is what is left of
\* list(self.global_connections).
IdleGb ==
    [pc |-> "idle", todo |-> {}, websocket |-> "-", sent |-> 0, dead |-> << >>,
     raised |-> FALSE, ret |-> 0]

\* broadcast_global after the loop: the dead transports are removed and
\* `sent` is returned, or KeyError leaves the call.
FinishGb(f, conns) ==
    LET r == remove_dead(conns, f.dead)
    IN  <<[f EXCEPT !.pc = "done", !.websocket = "-", !.raised = r.raised,
                    !.ret = IF r.raised THEN 0 ELSE f.sent],
          r.conns>>

\* ------------------------------------------------------------------------
\* AdaptiveQuestionScheduler (adaptive_scheduler.py).  Its dicts are
\* functions; times are seconds.
\* ------------------------------------------------------------------------
\* The session ids and student ids the scheduler is called with.
SessionIds == {"S1", "S2"}
ScheduledStudents == {"s1", "s2"}

\* The engagement labels accepted by add_student_to_adaptive.
Labels == {"Passive", "Moderate", "Active"}

\* The last instant `now` reaches.
MaxNow == 1020

\* The last instant at which a session is started, a student added or a
\* question marked sent; afterwards sessions are stopped and time passes.
MaxAddAt == 120

\* The largest cumulative questions_sent a session reaches.
MaxSent == 1

\* INTERVALS: (interval_min, interval_max) per label
INTERVALS ==
    [Passive |-> <<120, 300>>, Moderate |-> <<300, 480>>, Active |-> <<600, 900>>]

\* random.randint(a, b): any integer N with a <= N <= b
randint(a, b) == a..b

\* The draws of random.randint(interval_min, interval_max) that are
\* followed: both ends of the range.
Draws(label) ==
    LET lo == INTERVALS[label][1]
        hi == INTERVALS[label][2]
    IN  {d \in randint(lo, hi) : d \in {lo, hi}}

\* dict with d[k] = v assigned
Put(d, k, v) == [x \in DOMAIN d \cup {k} |-> IF x = k THEN v ELSE d[x]]

\* dict after `del d[k]`
Del(d, k) == [x \in DOMAIN d \ {k} |-> d[x]]

\* Mutant of start_session: the session data is assigned on every call.
start_session_reset(sessions, session_id, t) ==
    Put(sessions, session_id,
        [start_time |-> t, students |-> << >>, questions_sent |-> 0,
         restarted |-> session_id \in DOMAIN sessions])

\* start_session: active_sessions after the call at time t.  restarted is
\* history kept for the properties: the last call that named the session
\* was a start_session that found it active.
start_session(sessions, session_id, t) ==
    IF session_id \notin DOMAIN sessions
    THEN Put(sessions, session_id,
             [start_time |-> t, students |-> << >>, questions_sent |-> 0,
              restarted |-> FALSE])
    ELSE [sessions EXCEPT ![session_id].restarted = TRUE]

\* Mutant of stop_session: the schedules are kept.
stop_session_keep(sessions, schedules, session_id) ==
    IF session_id \in DOMAIN sessions
    THEN [sessions |-> Del(sessions, session_id), schedules |-> schedules]
    ELSE [sessions |-> sessions, schedules |-> schedules]

\* stop_session: active_sessions and student_schedules after the call
stop_session(sessions, schedules, session_id) ==
    IF session_id \in DOMAIN sessions
    THEN LET students_to_remove ==
                 {st \in DOMAIN schedules : schedules[st].session_id = session_id}
         IN  [sessions  |-> Del(sessions, session_id),
              schedules |-> [st \in DOMAIN schedules \ students_to_remove |-> schedules[st]]]
    ELSE [sessions |-> sessions, schedules |-> schedules]

\* Mutant of add_student: an unknown session is not started first.
add_student_unstarted(sessions, schedules, session_id, student_id, initial_engagement, d, t) ==
    LET schedule == [session_id |-> session_id,
                     engagement_level |-> initial_engagement,
                     next_question_time |-> t + d,
                     questions_sent |-> 0,
                     questions_answered |-> 0,
                     questions_correct |-> 0,
                     last_rtt |-> 100,
                     engagement_history |-> <<initial_engagement>>,
                     added_at |-> t, delay |-> d, fresh |-> TRUE,
                     was_ready |-> FALSE, predicted |-> "none"]
    IN  [sessions  |-> IF session_id \in DOMAIN sessions
                       THEN [sessions EXCEPT ![session_id].students =
                                Put(@, student_id, initial_engagement),
                                             ![session_id].restarted = FALSE]
                       ELSE sessions,
         schedules |-> Put(schedules, student_id, schedule)]

\* add_student at time t with next_question_delay d.  added_at, delay,
\* fresh, was_ready and predicted are history kept for the properties: when
\* the schedule was created, the delay of its last draw, that no question
\* was sent or answered since it was created, that the student was ready
\* when mark_question_sent was last called and nothing was drawn since, and
\* where the label of the last update_student_engagement came from.
add_student(sessions, schedules, session_id, student_id, initial_engagement, d, t) ==
    LET started == start_session(sessions, session_id, t)
        schedule == [session_id |-> session_id,
                     engagement_level |-> initial_engagement,
                     next_question_time |-> t + d,
                     questions_sent |-> 0,
                     questions_answered |-> 0,
                     questions_correct |-> 0,
                     last_rtt |-> 100,
                     engagement_history |-> <<initial_engagement>>,
                     added_at |-> t, delay |-> d, fresh |-> TRUE,
                     was_ready |-> FALSE, predicted |-> "none"]
    IN  [sessions  |-> [started EXCEPT ![session_id].students =
                            Put(@, student_id, initial_engagement),
                                       ![session_id].restarted = FALSE],
         schedules |-> Put(schedules, student_id, schedule)]

\* Mutant of mark_question_sent: the counters are updated and the next
\* question is not rescheduled.
mark_question_sent_counted(sessions, schedules, student_id, d, t) ==
    IF student_id \in DOMAIN schedules
    THEN LET session_id == schedules[student_id].session_id
         IN  [schedules |-> [schedules EXCEPT ![student_id].questions_sent = @ + 1,
                                              ![student_id].fresh = FALSE,
                                              ![student_id].was_ready =
                                                  (t >= schedules[student_id].next_question_time)],
              sessions  |-> IF session_id \in DOMAIN sessions
                            THEN [sessions EXCEPT ![session_id].questions_sent = @ + 1,
                                                  ![session_id].restarted = FALSE]
                            ELSE sessions]
    ELSE [sessions |-> sessions, schedules |-> schedules]

\* mark_question_sent at time t with next_question_delay d
mark_question_sent(sessions, schedules, student_id, d, t) ==
    IF student_id \in DOMAIN schedules
    THEN LET session_id == schedules[student_id].session_id
         IN  [schedules |-> [schedules EXCEPT ![student_id].questions_sent = @ + 1,
                                              ![student_id].next_question_time = t + d,
                                              ![student_id].delay = d,
                                              ![student_id].fresh = FALSE,
                                              ![student_id].was_ready =
                                                  (t >= schedules[student_id].next_question_time)],
              sessions  |-> IF session_id \in DOMAIN sessions
                            THEN [sessions EXCEPT ![session_id].questions_sent = @ + 1,
                                                  ![session_id].restarted = FALSE]
                            ELSE sessions]
    ELSE [sessions |-> sessions, schedules |-> schedules]

\* Mutant of get_students_ready_for_question: the students of every session
\* are looked at.
get_students_ready_for_question_all(sessions, schedules, session_id, t) ==
    IF session_id \notin DOMAIN sessions THEN {}
    ELSE {[student_id |-> st,
           engagement_level |-> schedules[st].engagement_level,
           questions_sent |-> schedules[st].questions_sent] :
             st \in {x \in DOMAIN schedules : t >= schedules[x].next_question_time}}

\* Mutant of get_students_ready_for_question: a student is ready only after
\* next_question_time.
get_students_ready_for_question_after(sessions, schedules, session_id, t) ==
    IF session_id \notin DOMAIN sessions THEN {}
    ELSE {[student_id |-> st,
           engagement_level |-> schedules[st].engagement_level,
           questions_sent |-> schedules[st].questions_sent] :
             st \in {x \in DOMAIN schedules :
                        /\ schedules[x].session_id = session_id
                        /\ t > schedules[x].next_question_time}}

\* get_students_ready_for_question at time t (the list as a set)
get_students_ready_for_question(sessions, schedules, session_id, t) ==
    IF session_id \notin DOMAIN sessions THEN {}
    ELSE {[student_id |-> st,
           engagement_level |-> schedules[st].engagement_level,
           questions_sent |-> schedules[st].questions_sent] :
             st \in {x \in DOMAIN schedules :
                        /\ schedules[x].session_id = session_id
                        /\ t >= schedules[x].next_question_time}}

\* The None that get_student_stats returns for an unscheduled student
None == [none |-> TRUE]

\* get_student_stats; accuracy is the division it is computed by, 0 / 1 for
\* the 0.0 it starts from
get_student_stats(schedules, student_id) ==
    IF student_id \notin DOMAIN schedules THEN None
    ELSE LET schedule == schedules[student_id]
         IN  [engagement_level |-> schedule.engagement_level,
              questions_sent |-> schedule.questions_sent,
              questions_answered |-> schedule.questions_answered,
              accuracy |-> IF schedule.questions_answered > 0
                           THEN [dividend |-> schedule.questions_correct,
                                 divisor |-> schedule.questions_answered]
                           ELSE [dividend |-> 0, divisor |-> 1],
              last_rtt |-> schedule.last_rtt,
              engagement_history |-> schedule.engagement_history]

\* remove_student: active_sessions and student_schedules after the call
remove_student(sessions, schedules, student_id) ==
    IF student_id \in DOMAIN schedules
    THEN LET session_id == schedules[student_id].session_id
         IN  [sessions  |-> IF /\ session_id \in DOMAIN sessions
                               /\ student_id \in DOMAIN sessions[session_id].students
                            THEN [sessions EXCEPT ![session_id].students = Del(@, student_id)]
                            ELSE sessions,
              schedules |-> Del(schedules, student_id)]
    ELSE [sessions |-> sessions, schedules |-> schedules]

\* The largest questions_answered a schedule reaches.
MaxAnswered == 1

\* The last instant at which an answer is recorded when two students
\* answer.
MaxEarlyAnswerAt == 0

\* The last instant at which an answer is recorded when one student
\* answers.
MaxAnswerAt == 600

\* The rtt_ms of the answers.
Rtts == {250}

\* The confidences a loaded model returns, in hundredths.
Confidences == {99}

\* What the model bundle does in one predict call: it raises, or it
\* returns a label with a confidence.
ModelOutcomes ==
    {[raises |-> TRUE, engagement_level |-> "-", confidence |-> 0]} \cup
    {[raises |-> FALSE, engagement_level |-> l, confidence |-> c] :
        l \in Labels, c \in Confidences}

\* load_model: model_loaded after the call; result is what the file system
\* and joblib.load do
LoadResults == {"not_found", "error", "loaded"}
load_model(loaded, result) ==
    CASE result = "not_found" -> loaded
      [] result = "error"     -> FALSE
      [] OTHER                -> TRUE

\* The fallback of predict
Fallback == [engagement_level |-> "Moderate", confidence |-> 50, source |-> "fallback"]

\* Mutant of predict: a prediction that raises keeps the student Active.
predict_active(loaded, outcome) ==
    IF ~loaded THEN Fallback
    ELSE IF outcome.raises
         THEN [engagement_level |-> "Active", confidence |-> 50, source |-> "fallback"]
         ELSE [engagement_level |-> outcome.engagement_level,
               confidence |-> outcome.confidence, source |-> "model"]

\* predict: (engagement_level, confidence); source is history kept for the
\* properties: whether the label is the model's or the fallback's.
predict(loaded, outcome) ==
    IF ~loaded THEN Fallback
    ELSE IF outcome.raises THEN Fallback
         ELSE [engagement_level |-> outcome.engagement_level,
               confidence |-> outcome.confidence, source |-> "model"]

\* Mutant of update_student_engagement: the counters and the history are
\* only updated when the label changes.
update_student_engagement_changed(sessions, schedules, student_id, is_correct, rtt_ms, prediction, d, t) ==
    IF student_id \notin DOMAIN schedules
    THEN [sessions |-> sessions, schedules |-> schedules]
    ELSE LET schedule == schedules[student_id]
             changed == schedule.engagement_level # prediction.engagement_level
             session_id == schedule.session_id
             updated ==
                 [schedule EXCEPT
                     !.questions_answered = IF changed THEN @ + 1 ELSE @,
                     !.questions_correct = IF is_correct THEN @ + 1 ELSE @,
                     !.last_rtt = rtt_ms,
                     !.engagement_level = prediction.engagement_level,
                     !.engagement_history =
                         IF changed THEN Append(@, prediction.engagement_level) ELSE @,
                     !.next_question_time = t + d,
                     !.delay = d, !.fresh = FALSE, !.was_ready = FALSE,
                     !.predicted = prediction.source]
         IN  [schedules |-> Put(schedules, student_id, updated),
              sessions  |-> IF session_id \in DOMAIN sessions
                            THEN [sessions EXCEPT ![session_id].students =
                                      Put(@, student_id, prediction.engagement_level),
                                                  ![session_id].restarted = FALSE]
                            ELSE sessions]

\* update_student_engagement at time t with the prediction of the
\* predictor and next_question_delay d
update_student_engagement(sessions, schedules, student_id, is_correct, rtt_ms, prediction, d, t) ==
    IF student_id \notin DOMAIN schedules
    THEN [sessions |-> sessions, schedules |-> schedules]
    ELSE LET schedule == schedules[student_id]
             session_id == schedule.session_id
             updated ==
                 [schedule EXCEPT
                     !.questions_answered = @ + 1,
                     !.questions_correct = IF is_correct THEN @ + 1 ELSE @,
                     !.last_rtt = rtt_ms,
                     !.engagement_level = prediction.engagement_level,
                     !.engagement_history = Append(@, prediction.engagement_level),
                     !.next_question_time = t + d,
                     !.delay = d, !.fresh = FALSE, !.was_ready = FALSE,
                     !.predicted = prediction.source]
         IN  [schedules |-> Put(schedules, student_id, updated),
              sessions  |-> IF session_id \in DOMAIN sessions
                            THEN [sessions EXCEPT ![session_id].students =
                                      Put(@, student_id, prediction.engagement_level),
                                                  ![session_id].restarted = FALSE]
                            ELSE sessions]

\* The instants of the clock: whole minutes, and the last instant.
Times == {t \in 0..MaxNow : t % 60 = 0} \cup {MaxNow}

\* The instants time passes to: the deadlines and the last instant.
Instants(schedules) ==
    {MaxNow} \cup {schedules[st].next_question_time : st \in DOMAIN schedules}

\* ------------------------------------------------------------------------
\* State
\* ------------------------------------------------------------------------
Init ==
    /\ session_rooms = << >>
    /\ wsOpen = [w \in WS |-> FALSE]
    /\ wsPc = [w \in WS |-> "idle"]
    /\ wsRoom = [w \in WS |-> "A"]
    /\ bc = [b \in AllBroadcasts |-> IdleBc]
    /\ tq = IdleTq
    /\ global_connections = {}
    /\ gOpen = [g \in GWS |-> FALSE]
    /\ gPc = [g \in GWS |-> "idle"]
    /\ gb = IdleGb
    /\ active_sessions = << >>
    /\ student_schedules = << >>
    /\ now = 0
    /\ model_loaded = FALSE
    /\ inbox = [w \in WS |-> << >>]

\* ------------------------------------------------------------------------
\* websocket_session (main.py): accept, join the room, start sending the
\* "session_joined" confirmation.
\* ------------------------------------------------------------------------
Connect(w, k) ==
    /\ wsPc[w] = "idle"
    /\ session_rooms' = join_session_room(session_rooms, w, k, wsStudent(w))
    /\ wsOpen' = [wsOpen EXCEPT ![w] = TRUE]
    /\ wsPc' = [wsPc EXCEPT ![w] = "confirming"]
    /\ wsRoom' = [wsRoom EXCEPT ![w] = k]
    /\ bc' = Observe(bc, session_rooms, session_rooms')
    /\ UNCHANGED tq
    /\ UNCHANGED <<globalVars, schedVars, inbox>>

\* The confirmation send_json completes.  On a closed transport it raises:
\* WebSocketDisconnect reaches the outer `except WebSocketDisconnect`, which
\* calls leave_session_room and then awaits its bool result (TypeError);
\* any other exception class leaves the handler directly.
ConfirmSent(w) ==
    /\ wsPc[w] = "confirming"
    /\ IF wsOpen[w]
       THEN /\ wsPc' = [wsPc EXCEPT ![w] = "receiving"]
            /\ UNCHANGED session_rooms
       ELSE \E exc \in {"WebSocketDisconnect", "other"} :
            /\ wsPc' = [wsPc EXCEPT ![w] = "raised"]
            /\ session_rooms' = IF exc = "WebSocketDisconnect"
                                THEN leave_session_room(session_rooms, wsRoom[w], wsStudent(w))
                                ELSE session_rooms
    /\ bc' = Observe(bc, session_rooms, session_rooms')
    /\ UNCHANGED <<wsOpen, wsRoom, tq>>
    /\ UNCHANGED <<globalVars, schedVars, inbox>>

\* receive_text yields {"type": "reconnect"}: the handler joins the room
\* again with the same transport; a failure of the reply is swallowed by
\* the bare `except: pass`.
Reconnect(w) ==
    /\ wsPc[w] = "receiving"
    /\ wsOpen[w]
    /\ session_rooms' = join_session_room(session_rooms, w, wsRoom[w], wsStudent(w))
    /\ bc' = Observe(bc, session_rooms, session_rooms')
    /\ UNCHANGED <<wsOpen, wsPc, wsRoom, tq>>
    /\ UNCHANGED <<globalVars, schedVars, inbox>>

\* receive_text raises on the closed transport: the inner
\* `except Exception` of the receive loop catches it and breaks, and the
\* handler returns.
RecvClosed(w) ==
    /\ wsPc[w] = "receiving"
    /\ ~wsOpen[w]
    /\ wsPc' = [wsPc EXCEPT ![w] = "returned"]
    /\ UNCHANGED <<session_rooms, wsOpen, wsRoom, bc, tq>>
    /\ UNCHANGED <<globalVars, schedVars, inbox>>

\* The client (or the network) closes the connection.
Close(w) ==
    /\ wsPc[w] \in {"confirming", "receiving"}
    /\ wsOpen[w]
    /\ wsOpen' = [wsOpen EXCEPT ![w] = FALSE]
    /\ UNCHANGED <<session_rooms, wsPc, wsRoom, bc, tq>>
    /\ UNCHANGED <<globalVars, schedVars, inbox>>

\* ------------------------------------------------------------------------
\* remove_from_session_room, called directly on the manager (eviction)
\* ------------------------------------------------------------------------
Remove(k, s) ==
    /\ Present(session_rooms, k, s)
    /\ Len(session_rooms[k]) - DictLen(session_rooms[k]) < MaxHoles
    /\ session_rooms' = remove_from_session_room(session_rooms, k, s)
    /\ bc' = Observe(bc, session_rooms, session_rooms')
    /\ UNCHANGED <<wsOpen, wsPc, wsRoom, tq>>
    /\ UNCHANGED <<globalVars, schedVars, inbox>>

\* ------------------------------------------------------------------------
\* trigger_quiz_to_session (main.py) -> broadcast_to_session
\* ------------------------------------------------------------------------
TriggerSession(b, k) ==
    /\ bc[b].pc = "idle"
    /\ LET idle == [IdleBc EXCEPT !.session_id = k,
                                  !.order = Cardinality({c \in DOMAIN bc : bc[c].pc # "idle"})]
       IN  IF k \notin DOMAIN session_rooms
           THEN /\ bc' = [bc EXCEPT ![b] = [idle EXCEPT !.pc = "done", !.success = TRUE]]
                /\ UNCHANGED <<session_rooms, inbox>>
           ELSE LET f == [idle EXCEPT !.existed = TRUE,
                                      !.di_used = DictLen(session_rooms[k]),
                                      !.di_len = DictLen(session_rooms[k]),
                                      !.snapshot = get_session_participants(session_rooms, k)]
                    n == Advance(f, session_rooms)
                IN  /\ bc' = [Observe(bc, session_rooms, n[2]) EXCEPT ![b] = n[1]]
                    /\ session_rooms' = n[2]
                    /\ inbox' = Handed(inbox, b, n[1])
    /\ UNCHANGED <<wsOpen, wsPc, wsRoom, tq>>
    /\ UNCHANGED <<globalVars, schedVars>>

\* `await websocket.send_json(message)` completes or raises.
SendComplete(b) ==
    /\ bc[b].pc = "sending"
    /\ LET f  == bc[b]
           ok == wsOpen[f.websocket]
           g  == IF ok
                 THEN [f EXCEPT !.sent = @ + 1, !.delivered = Append(@, f.websocket)]
                 ELSE [f EXCEPT !.dead_connections = Append(@, f.student_id)]
           n  == Advance(g, session_rooms)
       IN  /\ bc' = [Observe(bc, session_rooms, n[2]) EXCEPT ![b] = n[1]]
           /\ session_rooms' = n[2]
           /\ inbox' = Handed(inbox, b, n[1])
    /\ UNCHANGED <<wsOpen, wsPc, wsRoom, tq>>
    /\ UNCHANGED <<globalVars, schedVars>>

\* ------------------------------------------------------------------------
\* trigger_question: from the request to the first await of a transport
\* ------------------------------------------------------------------------
TriggerQuestion(meeting_id, q, lookup, hasZoom) ==
    /\ tq.pc = "idle"
    /\ lookup = "found" => (hasZoom \/ meeting_id = MongoId)
    /\ LET ids  == session_ids_to_check(meeting_id, lookup, hasZoom)
           ps   == get_session_participants_by_multiple_ids(session_rooms, ids)
           f    == [IdleTq EXCEPT !.request = meeting_id, !.questions = q,
                                  !.lookup = lookup, !.hasZoom = hasZoom,
                                  !.joinedAtStart =
                                      {<<k, s>> \in RoomKeys \X Students :
                                          is_in_session_room(session_rooms, k, s)}]
           g    == [f EXCEPT !.session_ids = ids, !.participants = ps,
                             !.effective = effective_meeting_id(meeting_id, ps),
                             !.students = student_participants(ps)]
       IN  tq' = CASE q = "error" -> [f EXCEPT !.pc = "done", !.result = "error"]
                   [] q = "none"  -> [f EXCEPT !.pc = "done", !.result = "no_questions"]
                   [] ps = << >>  -> [g EXCEPT !.pc = "done", !.result = "no_students"]
                   [] g.students = << >> ->
                                     [g EXCEPT !.pc = "done", !.result = "only_instructors"]
                   [] OTHER ->
                        LET h == [g EXCEPT !.idx = 1]
                        IN  TqCall(h, session_rooms, student_session_id(h, 1), "primary")
    /\ UNCHANGED <<session_rooms, wsOpen, wsPc, wsRoom, bc>>
    /\ UNCHANGED <<globalVars, schedVars, inbox>>

\* The send_json awaited by send_to_student_in_session completes or raises,
\* and the send loop of trigger_question goes on.
QuestionSendComplete ==
    /\ tq.pc = "sending"
    /\ LET ok    == wsOpen[tq.websocket]
           s     == tq.students[tq.idx].studentId
           rooms == send_to_student_in_session_done(session_rooms, tq.key, s, ok)
       IN  /\ session_rooms' = rooms
           /\ tq' = TqAfter(tq, rooms, ok)
    /\ bc' = Observe(bc, session_rooms, session_rooms')
    /\ UNCHANGED <<wsOpen, wsPc, wsRoom>>
    /\ UNCHANGED <<globalVars, schedVars, inbox>>

\* ------------------------------------------------------------------------
\* websocket_global (main.py): connect_global accepts the transport and adds
\* it to the global set.
\* ------------------------------------------------------------------------
GConnect(g) ==
    /\ gPc[g] = "idle"
    /\ gOpen' = [gOpen EXCEPT ![g] = TRUE]
    /\ gPc' = [gPc EXCEPT ![g] = "receiving"]
    /\ global_connections' = global_connections \cup {g}
    /\ UNCHANGED <<gb, roomVars, schedVars>>

\* The client (or the network) closes the global connection.
GClose(g) ==
    /\ gPc[g] = "receiving"
    /\ gOpen[g]
    /\ gOpen' = [gOpen EXCEPT ![g] = FALSE]
    /\ UNCHANGED <<global_connections, gPc, gb, roomVars, schedVars>>

\* receive_text raises WebSocketDisconnect: disconnect_global, and the
\* handler returns.
GRecvClosed(g) ==
    /\ gPc[g] = "receiving"
    /\ ~gOpen[g]
    /\ gPc' = [gPc EXCEPT ![g] = "returned"]
    /\ global_connections' = disconnect_global(global_connections, g)
    /\ UNCHANGED <<gOpen, gb, roomVars, schedVars>>

\* test_ws -> broadcast_global: the set is copied, and the loop runs to its
\* first `await ws.send_json` (the copy is iterated in the set's order,
\* which is any order).
TestWs ==
    /\ gb.pc = "idle"
    /\ IF global_connections = {}
       THEN /\ gb' = FinishGb(gb, global_connections)[1]
            /\ UNCHANGED global_connections
       ELSE /\ \E g \in global_connections :
                gb' = [gb EXCEPT !.pc = "sending", !.websocket = g,
                                 !.todo = global_connections \ {g}]
            /\ UNCHANGED global_connections
    /\ UNCHANGED <<gOpen, gPc, roomVars, schedVars>>

\* `await ws.send_json(message)` completes or raises; the loop goes on to
\* its next send or to the removal of the dead transports.
GSendComplete ==
    /\ gb.pc = "sending"
    /\ LET f == IF gOpen[gb.websocket]
                THEN [gb EXCEPT !.sent = @ + 1]
                ELSE [gb EXCEPT !.dead = Append(@, gb.websocket)]
       IN  IF f.todo = {}
           THEN /\ gb' = FinishGb(f, global_connections)[1]
                /\ global_connections' = FinishGb(f, global_connections)[2]
           ELSE /\ \E g \in f.todo :
                    gb' = [f EXCEPT !.websocket = g, !.todo = f.todo \ {g}]
                /\ UNCHANGED global_connections
    /\ UNCHANGED <<gOpen, gPc, roomVars, schedVars>>

\* ------------------------------------------------------------------------
\* The scheduler's callers (routers/engagement.py) and its clock
\* ------------------------------------------------------------------------
\* POST /session/{session_id}/start-adaptive
StartAdaptive(session_id) ==
    /\ now <= MaxAddAt
    /\ active_sessions' = start_session(active_sessions, session_id, now)
    /\ UNCHANGED <<student_schedules, now, model_loaded, roomVars, globalVars>>

\* POST /session/{session_id}/stop-adaptive
StopAdaptive(session_id) ==
    /\ LET r == stop_session(active_sessions, student_schedules, session_id)
       IN  /\ active_sessions' = r.sessions
           /\ student_schedules' = r.schedules
    /\ UNCHANGED <<now, model_loaded, roomVars, globalVars>>

\* POST /session/{session_id}/student/{student_id}/add
AddStudent(session_id, student_id, initial_engagement) ==
    /\ now <= MaxAddAt
    /\ \E d \in Draws(initial_engagement) :
          LET r == add_student(active_sessions, student_schedules, session_id,
                               student_id, initial_engagement, d, now)
          IN  /\ active_sessions' = r.sessions
              /\ student_schedules' = r.schedules
    /\ UNCHANGED <<now, model_loaded, roomVars, globalVars>>

\* scheduler.mark_question_sent(student_id)
MarkQuestionSent(student_id) ==
    /\ now <= MaxAddAt
    /\ (/\ student_id \in DOMAIN student_schedules
        /\ student_schedules[student_id].session_id \in DOMAIN active_sessions) =>
          active_sessions[student_schedules[student_id].session_id].questions_sent < MaxSent
    /\ \E d \in (IF student_id \in DOMAIN student_schedules
                 THEN Draws(student_schedules[student_id].engagement_level)
                 ELSE {0}) :
          LET r == mark_question_sent(active_sessions, student_schedules, student_id, d, now)
          IN  /\ active_sessions' = r.sessions
              /\ student_schedules' = r.schedules
    /\ UNCHANGED <<now, model_loaded, roomVars, globalVars>>

\* scheduler.update_student_engagement(student_id, is_correct, ..., rtt_ms, ...),
\* called no later than the instant `until`
RecordAnswer(student_id, is_correct, rtt_ms, until) ==
    /\ now <= until
    /\ student_id \in DOMAIN student_schedules =>
          student_schedules[student_id].questions_answered < MaxAnswered
    /\ \E outcome \in ModelOutcomes :
          LET prediction == predict(model_loaded, outcome)
          IN  \E d \in Draws(prediction.engagement_level) :
                 LET r == update_student_engagement(
                              active_sessions, student_schedules, student_id,
                              is_correct, rtt_ms, prediction, d, now)
                 IN  /\ active_sessions' = r.sessions
                     /\ student_schedules' = r.schedules
    /\ UNCHANGED <<now, model_loaded, roomVars, globalVars>>

\* scheduler.remove_student(student_id)
RemoveStudent(student_id) ==
    /\ LET r == remove_student(active_sessions, student_schedules, student_id)
       IN  /\ active_sessions' = r.sessions
           /\ student_schedules' = r.schedules
    /\ UNCHANGED <<now, model_loaded, roomVars, globalVars>>

\* predictor.load_model(model_path)
LoadModel(result) ==
    /\ model_loaded' = load_model(model_loaded, result)
    /\ UNCHANGED <<active_sessions, student_schedules, now, roomVars, globalVars>>

\* Time passes to the instant t.
Tick(t) ==
    /\ t \in Instants(student_schedules)
    /\ now < t /\ t <= MaxNow
    /\ now' = t
    /\ UNCHANGED <<active_sessions, student_schedules, model_loaded, roomVars, globalVars>>

\* The steps of the connection handlers.
Handlers(conns) ==
    \/ \E w \in conns : \E k \in wsRooms(w) : Connect(w, k)
    \/ \E w \in conns : ConfirmSent(w)
    \/ \E w \in conns : Reconnect(w)
    \/ \E w \in conns : RecvClosed(w)
    \/ \E w \in conns : Close(w)

Broadcasting ==
    \/ \E b \in Broadcasts, k \in RoomKeys : TriggerSession(b, k)
    \/ \E b \in Broadcasts : SendComplete(b)

\* Connections of students and of the instructor, and quiz broadcasts.
Next ==
    \/ Handlers(WS)
    \/ Broadcasting

Spec == Init /\ [][Next]_vars

\* One connection of each student and of the instructor, and a
\* trigger_question request.
NextLive ==
    \/ Handlers(SingleWS)
    \/ \E meeting_id \in RoomKeys, q \in QuestionOutcomes, lookup \in LookupOutcomes,
          hasZoom \in BOOLEAN : TriggerQuestion(meeting_id, q, lookup, hasZoom)
    \/ QuestionSendComplete

SpecLive == Init /\ [][NextLive]_vars

\* Connections of students, evictions, and quiz broadcasts.
NextEvict ==
    \/ Handlers(StudentWS)
    \/ \E k \in RoomKeys, s \in Students : Remove(k, s)
    \/ Broadcasting

SpecEvict == Init /\ [][NextEvict]_vars

\* Two trigger_quiz_to_session requests, the second made after the first
\* (and possibly before the first has returned).
TriggerSecond(k) ==
    /\ bc["b1"].pc # "idle"
    /\ TriggerSession("b2", k)

Overlapping ==
    \/ \E k \in RoomKeys : TriggerSession("b1", k)
    \/ \E k \in RoomKeys : TriggerSecond(k)
    \/ \E b \in AllBroadcasts : SendComplete(b)

\* One connection of each student, and two quiz broadcasts.
NextOrder ==
    \/ Handlers({"w1", "w3"})
    \/ Overlapping

SpecOrder == Init /\ [][NextOrder]_vars

\* Students are added to sessions, sessions are stopped, and time passes.
NextSched ==
    \/ \E session_id \in SessionIds : StopAdaptive(session_id)
    \/ \E session_id \in SessionIds, student_id \in ScheduledStudents, label \in Labels :
          AddStudent(session_id, student_id, label)
    \/ \E t \in Times : Tick(t)

SpecSched == Init /\ [][NextSched]_vars

\* One session is started and stopped, and its students are added, sent
\* questions and become ready.
NextReady ==
    \/ \E student_id \in ScheduledStudents, label \in Labels :
          AddStudent("S1", student_id, label)
    \/ \E student_id \in ScheduledStudents : MarkQuestionSent(student_id)
    \/ StartAdaptive("S1")
    \/ StopAdaptive("S1")
    \/ \E t \in Times : Tick(t)

SpecReady == Init /\ [][NextReady]_vars

\* The students of one session are added as Active, answer, are
\* reclassified by the predictor, and are removed.
NextAnswer ==
    \/ \E student_id \in ScheduledStudents : AddStudent("S1", student_id, "Active")
    \/ \E student_id \in ScheduledStudents, is_correct \in BOOLEAN, rtt_ms \in Rtts :
          RecordAnswer(student_id, is_correct, rtt_ms, MaxEarlyAnswerAt)
    \/ \E student_id \in ScheduledStudents : RemoveStudent(student_id)
    \/ \E result \in LoadResults : LoadModel(result)
    \/ StopAdaptive("S1")
    \/ \E t \in Times : Tick(t)

SpecAnswer == Init /\ [][NextAnswer]_vars

\* One student is added as Active and answers early or late.
NextReclass ==
    \/ AddStudent("S1", "s1", "Active")
    \/ \E is_correct \in BOOLEAN, rtt_ms \in Rtts :
          RecordAnswer("s1", is_correct, rtt_ms, MaxAnswerAt)
    \/ \E result \in LoadResults : LoadModel(result)
    \/ \E t \in Times : Tick(t)

SpecReclass == Init /\ [][NextReclass]_vars

\* Two sessions are started and stopped while their students are added as
\* Active, moved between them, sent questions and removed.  No time passes.
NextOrphan ==
    \/ \E session_id \in SessionIds : StartAdaptive(session_id)
    \/ \E session_id \in SessionIds : StopAdaptive(session_id)
    \/ \E session_id \in SessionIds, student_id \in ScheduledStudents :
          AddStudent(session_id, student_id, "Active")
    \/ \E student_id \in ScheduledStudents : MarkQuestionSent(student_id)
    \/ \E student_id \in ScheduledStudents : RemoveStudent(student_id)

SpecOrphan == Init /\ [][NextOrphan]_vars

\* The steps of the global connection handlers.
GlobalHandlers ==
    \/ \E g \in GWS : GConnect(g)
    \/ \E g \in GWS : GClose(g)
    \/ \E g \in GWS : GRecvClosed(g)

\* Global connections and a global broadcast, next to one session
\* connection and evictions.
NextGlobal ==
    \/ GlobalHandlers
    \/ TestWs
    \/ GSendComplete
    \/ Handlers({"w1"})
    \/ \E k \in RoomKeys, s \in Students : Remove(k, s)

SpecGlobal == Init /\ [][NextGlobal]_vars


\* ------------------------------------------------------------------------
\* Properties
\* ------------------------------------------------------------------------
Range(seq) == {seq[i] : i \in 1..Len(seq)}

\* The entries of room k whose key is s.
EntriesOf(rooms, k, s) ==
    IF k \in DOMAIN rooms THEN {i \in LiveIdx(rooms[k]) : rooms[k][i].sid = s} ELSE {}

\* A step in which the handler of transport w calls join_session_room.
JoinStep(w) == (\E k \in wsRooms(w) : Connect(w, k)) \/ Reconnect(w)

\* C1 (idempotent join): after every join_session_room(w, k, s), whatever
\* happened before, room k holds exactly one entry for s, that entry is
\* "joined" and carries the transport w of this join, and the handler has
\* not raised.
C1_IdempotentJoin ==
    [][\A w \in WS :
         JoinStep(w) =>
            LET k == wsRoom'[w]
                s == wsStudent(w)
            IN  /\ Cardinality(EntriesOf(session_rooms', k, s)) = 1
                /\ Entry(session_rooms', k, s).status = "joined"
                /\ Entry(session_rooms', k, s).ws = w
                /\ wsPc'[w] \in {"confirming", "receiving"}]_vars

\* Witness of C1: a finished broadcast to room A marked s1 "left" after its
\* send failed, and s1 is "joined" again on its second transport w2.
C1_Witness ==
    /\ bc["b1"].pc = "done"
    /\ bc["b1"].session_id = "A"
    /\ ~bc["b1"].raised
    /\ "s1" \in Range(bc["b1"].dead_connections)
    /\ is_in_session_room(session_rooms, "A", "s1")
    /\ Entry(session_rooms, "A", "s1").ws = "w2"
    /\ Cardinality(EntriesOf(session_rooms, "A", "s1")) = 1

\* C2 (session isolation): every send of a broadcast to room K goes to a
\* participant that is "joined" in K at that moment, over the transport
\* registered in K; the broadcast returns the number of sends that
\* succeeded; and a step of a broadcast never changes an entry that is
\* "left", in any room.
AttemptsInRoom(f) ==
    \A i \in 1..Len(f.attempts) : f.attempts[i].member

CountIsDeliveries(f) ==
    /\ f.sent = Len(f.delivered)
    /\ Range(f.delivered) \subseteq {f.attempts[i].ws : i \in 1..Len(f.attempts)}

BroadcastStep(b) == (\E k \in RoomKeys : TriggerSession(b, k)) \/ SendComplete(b)

LeftStaysLeft ==
    \A k \in DOMAIN session_rooms : \A i \in LiveIdx(session_rooms[k]) :
        session_rooms[k][i].status = "left" =>
            /\ k \in DOMAIN session_rooms'
            /\ session_rooms'[k][i] = session_rooms[k][i]

C2_SessionIsolation ==
    /\ [](\A b \in Broadcasts : AttemptsInRoom(bc[b]) /\ CountIsDeliveries(bc[b]))
    /\ [][\A b \in Broadcasts : BroadcastStep(b) => LeftStaysLeft]_vars

\* Witness of C2: a broadcast to room A returned 1 while room A also holds
\* an entry that is "left" and was not sent to, and instructor_1 is
\* "joined" under the other key B only.
C2_Witness ==
    LET f == bc["b1"]
    IN  /\ f.pc = "done" /\ f.session_id = "A" /\ ~f.raised /\ f.sent = 1
        /\ \E s \in Students :
              /\ Present(session_rooms, "A", s)
              /\ Entry(session_rooms, "A", s).status = "left"
              /\ s \notin {f.attempts[i].sid : i \in 1..Len(f.attempts)}
        /\ is_in_session_room(session_rooms, "B", "instructor_1")
        /\ ~Present(session_rooms, "A", "instructor_1")

\* C3 (broadcast fault isolation): a broadcast over the n participants that
\* are "joined" when it begins, during which no other handler changes the
\* room, sends to each of them, returns n - k without raising when k of the
\* sends fail, and leaves exactly the n - k others in
\* get_session_participants.
C3_FaultIsolation ==
    \A b \in Broadcasts :
        LET f == bc[b]
            failed == Range(f.dead_connections)
        IN  (f.pc = "done" /\ f.quiet) =>
                /\ ~f.raised /\ f.success
                /\ [i \in 1..Len(f.attempts) |-> f.attempts[i].sid] = f.snapshot
                /\ f.sent = Len(f.snapshot) - Len(f.dead_connections)
                /\ Range(f.delivered) =
                       {f.attempts[i].ws : i \in {j \in 1..Len(f.attempts) :
                                                    f.attempts[j].sid \notin failed}}
                /\ Range(f.participants) = Range(f.snapshot) \ failed

\* Witness of C3: an undisturbed broadcast over two participants, one of
\* whose sends failed, has returned 1.
C3_Witness ==
    LET f == bc["b1"]
    IN  /\ f.pc = "done" /\ f.quiet
        /\ Len(f.snapshot) = 2
        /\ Len(f.dead_connections) = 1
        /\ f.sent = 1

\* C4 (no lost update when a join and a prune race): when a broadcast to
\* room K returns, a student who re-joined K over a fresh transport after
\* the send to the student's old transport had failed in that broadcast is
\* still "joined" with the fresh transport.
C4_NoLostUpdate ==
    [][\A b \in Broadcasts : \A s \in Students :
         LET f == bc[b]
             k == f.session_id
         IN  ( /\ f.pc = "sending"
               /\ bc'[b].pc = "done"
               /\ s \in f.rejoined
               /\ is_in_session_room(session_rooms, k, s) )
             => /\ is_in_session_room(session_rooms', k, s)
                /\ Entry(session_rooms', k, s).ws = Entry(session_rooms, k, s).ws]_vars

\* C5 (snapshot iteration): no broadcast fails with an error because a
\* student joined, or an entry was evicted from, its room while one of its
\* sends was suspended.
C5_SnapshotIteration ==
    \A b \in Broadcasts : ~bc[b].raised

\* The handler of transport w has ended after the client closed the
\* connection.
Ended(w) == wsPc[w] \in {"returned", "raised"}

\* C6 (disconnect leads to Left): once the handler of a closed connection
\* has ended, it has ended without an unhandled error and the participant
\* it registered is no longer "joined" over that transport.
C6_DisconnectLeadsToLeft ==
    \A w \in WS :
        Ended(w) =>
            /\ wsPc[w] = "returned"
            /\ ~( /\ is_in_session_room(session_rooms, wsRoom[w], wsStudent(w))
                  /\ Entry(session_rooms, wsRoom[w], wsStudent(w)).ws = w )

\* The calls of send_to_student_in_session made so far by the trigger.
Calls == {[key |-> tq.calls[i].key, sid |-> tq.calls[i].sid] : i \in 1..Len(tq.calls)}

\* C7 (alias union): when the session record is found and carries both
\* ids, a trigger addressed by either id has, when it returns, called
\* send_to_student_in_session for every student that was "joined" under
\* either id when the participants were collected, each under the key the
\* student is registered with.
C7_AliasUnion ==
    (tq.pc = "done" /\ tq.questions = "some" /\ tq.lookup = "found" /\ tq.hasZoom) =>
        \A p \in tq.joinedAtStart :
            ~IsInstructor(p[2]) =>
                /\ tq.result = "sent"
                /\ [key |-> p[1], sid |-> p[2]] \in Calls

\* Witness of C7: s1 was "joined" under A and s2 under B, the trigger was
\* addressed by B, and both sends succeeded.
C7_Witness ==
    /\ tq.pc = "done" /\ tq.request = "B" /\ tq.lookup = "found" /\ tq.hasZoom
    /\ <<"A", "s1">> \in tq.joinedAtStart
    /\ <<"B", "s2">> \in tq.joinedAtStart
    /\ tq.ws_sent_count = 2

\* C8 (resolution by aliases): when the trigger collects the participants,
\* the effective id is a checked id with the largest number of "joined"
\* participants; when no checked room has a "joined" participant the trigger
\* returns the "no students" result and not an error.
C8_ResolveByAliases ==
    [][(tq.pc = "idle" /\ tq'.pc # "idle" /\ tq'.questions = "some") =>
         LET ids == Range(tq'.session_ids)
             n(k) == get_session_participant_count(session_rooms, k)
         IN  IF \A k \in ids : n(k) = 0
             THEN tq'.pc = "done" /\ tq'.result = "no_students" /\ tq'.participants = << >>
             ELSE /\ tq'.effective \in ids
                  /\ \A k \in ids : n(k) <= n(tq'.effective)]_vars

\* Witness of C8: the trigger was addressed by A and resolved to B, where
\* more participants are "joined".
C8_Witness ==
    /\ tq.pc # "idle" /\ tq.request = "A" /\ tq.effective = "B"
    /\ Len(tq.participants) = 3

\* C9 as claimed: every send of the cycle is addressed to the effective id.
C9_AllSendsToEffectiveKey ==
    \A c \in Calls : c.key = tq.effective

\* C9 as amended: the ids are resolved once per cycle (the effective id and
\* the participant list do not change while the cycle sends), and every
\* send is addressed to the key its recipient was found under or, after
\* that send did not succeed, to the effective id.
C9_KeysFixedAtResolution ==
    /\ [](\A i \in 1..Len(tq.calls) :
            \E j \in 1..Len(tq.students) :
                /\ tq.students[j].studentId = tq.calls[i].sid
                /\ <<tq.students[j].sessionId, tq.students[j].studentId>> \in tq.joinedAtStart
                /\ IF tq.calls[i].phase = "primary"
                   THEN tq.calls[i].key = tq.students[j].sessionId
                   ELSE tq.calls[i].key = tq.effective)
    /\ [][tq.pc = "sending" =>
            /\ tq'.effective = tq.effective
            /\ tq'.students = tq.students
            /\ tq'.session_ids = tq.session_ids]_vars

\* Witness of C9: a cycle has sent to a student under a key that is not the
\* effective id and, after that send failed, again under the effective id.
C9_Witness ==
    /\ tq.pc = "done"
    /\ \E i \in 1..Len(tq.calls) : tq.calls[i].phase = "fallback"
    /\ \E i \in 1..Len(tq.calls) : tq.calls[i].key # tq.effective

\* C10 (graceful degradation): when no lookup finds the session record, or
\* the lookup raises, the ids checked are exactly the supplied id, the
\* trigger does not end with an error, and when it returns it has called
\* send_to_student_in_session for every student that was "joined" in the
\* room of the supplied id.
C10_LookupFailureDegrades ==
    (tq.pc # "idle" /\ tq.questions = "some" /\ tq.lookup # "found") =>
        /\ tq.session_ids = <<tq.request>>
        /\ tq.result # "error"
        /\ tq.pc = "done" =>
              \A p \in tq.joinedAtStart :
                  (p[1] = tq.request /\ ~IsInstructor(p[2])) =>
                      /\ tq.result = "sent"
                      /\ [key |-> tq.request, sid |-> p[2]] \in Calls

\* Witness of C10: the lookup raised and the trigger still delivered to a
\* student of the room of the supplied id.
C10_Witness ==
    /\ tq.pc = "done" /\ tq.lookup = "error" /\ tq.result = "sent"
    /\ tq.ws_sent_count >= 1

\* What leaveRoom(k, s) is to do on the registry `rooms`.
LeaveContract(rooms, k, s) ==
    LET after == leave_session_room(rooms, k, s)
        mine  == EntriesOf(rooms, k, s)
    IN  /\ DOMAIN after = DOMAIN rooms
        /\ \A x \in DOMAIN rooms :
              /\ Len(after[x]) = Len(rooms[x])
              /\ \A i \in 1..Len(rooms[x]) :
                    (x # k \/ i \notin mine) => after[x][i] = rooms[x][i]
        /\ IF mine # {}
           THEN /\ leave_session_room_returns(rooms, k, s) = TRUE
                /\ \A i \in mine :
                      /\ after[k][i].sid = s
                      /\ after[k][i].ws = rooms[k][i].ws
                      /\ after[k][i].status = "left"
           ELSE /\ leave_session_room_returns(rooms, k, s) = FALSE
                /\ after = rooms

\* A step in which the handler of transport w runs its
\* `except WebSocketDisconnect` branch or leaves with another exception.
LeaveStep(w) == wsPc[w] = "confirming" /\ wsPc'[w] = "raised"

C12_JoinReturnsJoinedCount ==
    [][\A w \in WS :
         JoinStep(w) =>
            join_session_room_participantCount(session_rooms, w, wsRoom'[w], wsStudent(w))
              = Len(get_session_participants(session_rooms', wsRoom'[w]))]_vars

\* The case a finished trigger was in: no room, a room without "joined"
\* participants, a room in which every send failed, or at least one send
\* that succeeded.
TriggerCase(f) ==
    IF ~f.existed THEN "no_room"
    ELSE IF f.snapshot = << >> THEN "zero_joined"
    ELSE IF f.sent > 0 THEN "sent"
    ELSE IF f.attempts # << >> THEN "all_failed"
    ELSE "other"

\* C13 (diagnosable outcome): two triggers that returned the same result
\* were in the same case.
C13_OutcomeDiagnosable ==
    \A b, c \in AllBroadcasts :
        (/\ bc[b].pc = "done" /\ bc[c].pc = "done"
         /\ bc[b].success /\ bc[c].success
         /\ TriggerResult(bc[b]) = TriggerResult(bc[c]))
        => TriggerCase(bc[b]) = TriggerCase(bc[c])

\* The positions of the message of broadcast b in the inbox of transport w.
PositionsOf(w, b) == {i \in 1..Len(inbox[w]) : inbox[w][i] = b}

\* C14 (per-participant delivery order): when broadcast b was requested
\* before broadcast c, every connected transport that has been handed the
\* messages of both was handed the message of b first.
C14_DeliveryOrder ==
    \A w \in WS : \A b, c \in AllBroadcasts :
        (wsOpen[w] /\ bc[b].pc # "idle" /\ bc[c].pc # "idle" /\ bc[b].order < bc[c].order)
        => \A i \in PositionsOf(w, b) : \A j \in PositionsOf(w, c) : i < j

\* C15 (global broadcast): broadcast_global does not raise, returns the
\* number of sends that succeeded, and when it has returned no transport
\* whose send failed is in the global set, whatever disconnect_global did
\* while it was suspended.
C15_GlobalBroadcast ==
    gb.pc = "done" =>
        /\ ~gb.raised
        /\ gb.ret = gb.sent
        /\ \A i \in 1..Len(gb.dead) : gb.dead[i] \notin global_connections

\* C16 (room lifecycle): no room key ever maps to an empty participant
\* dict; a room key appears only by a join to that room and disappears only
\* by the eviction of its last entry, and an eviction of the last entry
\* always removes the key.
C16_RoomLifecycle ==
    /\ [](\A k \in DOMAIN session_rooms : DictLen(session_rooms[k]) > 0)
    /\ [][\A k \in RoomKeys :
            /\ (k \notin DOMAIN session_rooms /\ k \in DOMAIN session_rooms')
                  => \E w \in WS : JoinStep(w) /\ wsRoom'[w] = k
            /\ (k \in DOMAIN session_rooms /\ k \notin DOMAIN session_rooms')
                  => \E s \in Students :
                        /\ Remove(k, s)
                        /\ LiveIdx(session_rooms[k]) = EntriesOf(session_rooms, k, s)
            /\ \A s \in Students :
                  (/\ Present(session_rooms, k, s)
                   /\ LiveIdx(session_rooms[k]) = EntriesOf(session_rooms, k, s)
                   /\ k \in DOMAIN session_rooms')
                  => ~Remove(k, s)
            /\ \A w \in WS :
                  (wsRoom'[w] = k /\ k \notin DOMAIN session_rooms') => ~JoinStep(w)]_vars

\* Witness of C16: s2 joined room B over w3 and was its only entry, the
\* entry has been evicted and room B is gone, while room A still exists.
C16_Witness ==
    /\ wsPc["w3"] # "idle" /\ wsRoom["w3"] = "B"
    /\ "B" \notin DOMAIN session_rooms
    /\ "A" \in DOMAIN session_rooms

\* ------------------------------------------------------------------------
\* The adaptive scheduler
\* ------------------------------------------------------------------------
\* C17: after stop_session(S) the session S is not active and no schedule
\* has session_id S, so get_student_stats of each student that was
\* scheduled in S returns None; the sessions of every other session_id and
\* the schedules of every other session_id are as they were.
C17_StopCascade ==
    [][\A S \in SessionIds :
          StopAdaptive(S) =>
             /\ S \notin DOMAIN active_sessions'
             /\ \A st \in DOMAIN student_schedules' :
                    student_schedules'[st].session_id # S
             /\ \A st \in DOMAIN student_schedules :
                    student_schedules[st].session_id = S =>
                       get_student_stats(student_schedules', st) = None
             /\ DOMAIN active_sessions' \ {S} = DOMAIN active_sessions \ {S}
             /\ \A k \in DOMAIN active_sessions \ {S} :
                    active_sessions'[k] = active_sessions[k]
             /\ DOMAIN student_schedules' \subseteq DOMAIN student_schedules
             /\ \A st \in DOMAIN student_schedules :
                    student_schedules[st].session_id # S =>
                       /\ st \in DOMAIN student_schedules'
                       /\ student_schedules'[st] = student_schedules[st]]_vars

\* S1 was stopped while s1 was scheduled in it and s2 in S2: s1, once
\* added to S2, has lost its schedule, and s2 and S2 are still there.
C17_Witness ==
    /\ "S1" \notin DOMAIN active_sessions
    /\ "S2" \in DOMAIN active_sessions
    /\ "s1" \in DOMAIN active_sessions["S2"].students
    /\ "s1" \notin DOMAIN student_schedules
    /\ "s2" \in DOMAIN student_schedules
    /\ student_schedules["s2"].session_id = "S2"
    /\ get_student_stats(student_schedules, "s1") = None
    /\ get_student_stats(student_schedules, "s2") # None

\* C18: start_session on an active session leaves the session's start
\* time, its students map, its questions_sent counter and every student
\* schedule as they were.
C18_StartIdempotent ==
    [][\A S \in SessionIds :
          (S \in DOMAIN active_sessions /\ StartAdaptive(S)) =>
             /\ S \in DOMAIN active_sessions'
             /\ active_sessions'[S].start_time = active_sessions[S].start_time
             /\ active_sessions'[S].students = active_sessions[S].students
             /\ active_sessions'[S].questions_sent = active_sessions[S].questions_sent
             /\ student_schedules' = student_schedules]_vars

\* start_session was called on S1 after the session had started, a student
\* was in it and a question had been sent.
C18_Witness ==
    /\ "S1" \in DOMAIN active_sessions
    /\ active_sessions["S1"].restarted
    /\ active_sessions["S1"].start_time < now
    /\ active_sessions["S1"].questions_sent > 0
    /\ DOMAIN active_sessions["S1"].students # {}
    /\ \E st \in DOMAIN student_schedules : student_schedules[st].session_id = "S1"

\* C19: the delay drawn for a schedule by add_student or mark_question_sent
\* lies in the inclusive-exclusive interval of the schedule's engagement
\* label, so it is never the interval's upper bound (300, 480 or 900).
C19_DelayBelowUpper ==
    \A st \in DOMAIN student_schedules :
       LET schedule == student_schedules[st]
           interval_min == INTERVALS[schedule.engagement_level][1]
           interval_max == INTERVALS[schedule.engagement_level][2]
       IN  /\ interval_min <= schedule.delay
           /\ schedule.delay < interval_max

\* The students get_students_ready_for_question returns for the session now
ReadyNow(session_id) ==
    {r.student_id : r \in get_students_ready_for_question(
                              active_sessions, student_schedules, session_id, now)}

\* C20: a student added with engagement Active is not returned by
\* get_students_ready_for_question at the time of the add, and, as long as
\* no question was sent or answered since the add, is returned at every
\* time from 900 seconds after the add onward.
C20_ActiveReadiness ==
    \A st \in DOMAIN student_schedules :
       LET schedule == student_schedules[st]
       IN  (schedule.fresh /\ schedule.engagement_level = "Active") =>
              /\ now = schedule.added_at => st \notin ReadyNow(schedule.session_id)
              /\ now >= schedule.added_at + INTERVALS["Active"][2] =>
                    st \in ReadyNow(schedule.session_id)

\* s1 was added as Active after time 0 with the longest delay, no question
\* was sent to it since, and exactly 900 seconds have passed: it is ready.
\* s2 of the same session was sent a question in between.
C20_Witness ==
    /\ {"s1", "s2"} \subseteq DOMAIN student_schedules
    /\ student_schedules["s1"].fresh
    /\ student_schedules["s1"].engagement_level = "Active"
    /\ student_schedules["s1"].added_at > 0
    /\ now = student_schedules["s1"].added_at + 900
    /\ student_schedules["s1"].next_question_time = now
    /\ ~student_schedules["s2"].fresh
    /\ "s1" \in ReadyNow("S1")

\* An update_student_engagement step that reclassifies st from Active to
\* Passive
Reclassified(st) ==
    /\ st \in DOMAIN student_schedules /\ st \in DOMAIN student_schedules'
    /\ student_schedules'[st].questions_answered =
           student_schedules[st].questions_answered + 1
    /\ student_schedules[st].engagement_level = "Active"
    /\ student_schedules'[st].engagement_level = "Passive"

\* C21: when update_student_engagement reclassifies a student from Active
\* to Passive, the new next_question_time lies in [now + 120, now + 300)
\* and is strictly sooner than the deadline the student had before.
C21_ReclassSooner ==
    [][\A st \in ScheduledStudents :
          Reclassified(st) =>
             /\ now + 120 <= student_schedules'[st].next_question_time
             /\ student_schedules'[st].next_question_time < now + 300
             /\ student_schedules'[st].next_question_time <
                    student_schedules[st].next_question_time]_vars

\* C22: update_student_engagement on a scheduled student adds 1 to
\* questions_answered, adds 1 to questions_correct exactly when the answer
\* is correct, sets last_rtt, stores the predictor's label in the schedule
\* and in the students map of the schedule's session, and leaves
\* questions_sent and every other student's schedule as they were; on a
\* student without a schedule it changes nothing.  Stated of the call in
\* every reachable state, for every answer, prediction and draw.
C22_RecordAnswer ==
    \A st \in ScheduledStudents, is_correct \in BOOLEAN, rtt_ms \in Rtts,
       outcome \in ModelOutcomes :
       LET prediction == predict(model_loaded, outcome)
       IN  \A d \in Draws(prediction.engagement_level) :
              LET r == update_student_engagement(
                           active_sessions, student_schedules, st,
                           is_correct, rtt_ms, prediction, d, now)
              IN  IF st \in DOMAIN student_schedules
                  THEN LET before == student_schedules[st]
                           after == r.schedules[st]
                       IN  /\ after.questions_answered = before.questions_answered + 1
                           /\ after.questions_correct =
                                  before.questions_correct + (IF is_correct THEN 1 ELSE 0)
                           /\ after.last_rtt = rtt_ms
                           /\ after.engagement_level = prediction.engagement_level
                           /\ after.session_id = before.session_id
                           /\ r.sessions[after.session_id].students[st] =
                                  prediction.engagement_level
                           /\ after.questions_sent = before.questions_sent
                           /\ DOMAIN r.schedules = DOMAIN student_schedules
                           /\ \A other \in DOMAIN student_schedules \ {st} :
                                  r.schedules[other] = student_schedules[other]
                  ELSE r = [sessions |-> active_sessions, schedules |-> student_schedules]

\* s1 gave one correct answer and was reclassified by the model; s2 is
\* scheduled and has not answered.
C22_Witness ==
    /\ {"s1", "s2"} \subseteq DOMAIN student_schedules
    /\ student_schedules["s1"].questions_answered = 1
    /\ student_schedules["s1"].questions_correct = 1
    /\ student_schedules["s1"].last_rtt = 250
    /\ student_schedules["s1"].predicted = "model"
    /\ student_schedules["s1"].engagement_level = "Passive"
    /\ active_sessions["S1"].students["s1"] = "Passive"
    /\ student_schedules["s2"].questions_answered = 0
    /\ student_schedules["s2"].fresh

\* C23: mark_question_sent adds 1 to the student's questions_sent and 1 to
\* the questions_sent of the student's session, and sets next_question_time
\* to now plus a delay of the interval of the student's current label, so
\* the student is not returned by a get_students_ready_for_question that
\* follows at the same time, ready before or not.  Stated of the call in
\* every reachable state.
C23_MarkReschedules ==
    \A st \in DOMAIN student_schedules :
       LET before == student_schedules[st]
           interval_min == INTERVALS[before.engagement_level][1]
           interval_max == INTERVALS[before.engagement_level][2]
       IN  \A d \in Draws(before.engagement_level) :
              LET r == mark_question_sent(active_sessions, student_schedules, st, d, now)
                  after == r.schedules[st]
              IN  /\ after.questions_sent = before.questions_sent + 1
                  /\ r.sessions[before.session_id].questions_sent =
                         active_sessions[before.session_id].questions_sent + 1
                  /\ after.engagement_level = before.engagement_level
                  /\ after.next_question_time - now \in interval_min..interval_max
                  /\ \A ready \in get_students_ready_for_question(
                                      r.sessions, r.schedules, before.session_id, now) :
                         ready.student_id # st

\* s1 was ready when it was last marked sent, and at the same instant it
\* is not ready.
C23_Witness ==
    /\ "s1" \in DOMAIN student_schedules
    /\ student_schedules["s1"].was_ready
    /\ student_schedules["s1"].questions_sent = 1
    /\ active_sessions["S1"].questions_sent = 1
    /\ now = student_schedules["s1"].next_question_time - student_schedules["s1"].delay
    /\ now > 0
    /\ "s1" \notin ReadyNow("S1")

\* C24: get_students_ready_for_question(S) returns exactly the students
\* whose schedule has session_id S and now >= next_question_time, with the
\* label and questions_sent of their schedule, and no student of another
\* session; for a session that is not active it returns the empty list.
\* It is a function of the scheduler's state and changes none of it.
C24_ReadyExact ==
    \A S \in SessionIds :
       LET ready_students == get_students_ready_for_question(
                                 active_sessions, student_schedules, S, now)
       IN  IF S \in DOMAIN active_sessions
           THEN /\ {r.student_id : r \in ready_students} =
                      {st \in DOMAIN student_schedules :
                          /\ student_schedules[st].session_id = S
                          /\ now >= student_schedules[st].next_question_time}
                /\ \A r \in ready_students :
                      /\ r.engagement_level =
                             student_schedules[r.student_id].engagement_level
                      /\ r.questions_sent = student_schedules[r.student_id].questions_sent
           ELSE ready_students = {}

\* s1 of S1 and s2 of S2 are both past their deadline, s1 exactly at it:
\* each session returns its own student only.
C24_Witness ==
    /\ {"s1", "s2"} \subseteq DOMAIN student_schedules
    /\ student_schedules["s1"].session_id = "S1"
    /\ student_schedules["s2"].session_id = "S2"
    /\ now = student_schedules["s1"].next_question_time
    /\ now > student_schedules["s2"].next_question_time
    /\ ReadyNow("S1") = {"s1"}
    /\ ReadyNow("S2") = {"s2"}

\* C25: for every active session S, the students map of S holds student st
\* with label L exactly when st has a schedule with session_id S and
\* engagement_level L.
C25_ViewConsistent ==
    \A S \in DOMAIN active_sessions, st \in ScheduledStudents, L \in Labels :
       (/\ st \in DOMAIN active_sessions[S].students
        /\ active_sessions[S].students[st] = L)
       <=>
       (/\ st \in DOMAIN student_schedules
        /\ student_schedules[st].session_id = S
        /\ student_schedules[st].engagement_level = L)

\* C26: get_student_stats reports the accuracy as undefined, not as zero,
\* when the student's questions_answered is 0, and as questions_correct /
\* questions_answered otherwise.
C26_AccuracyUndefined ==
    \A st \in DOMAIN student_schedules :
       LET schedule == student_schedules[st]
           stats == get_student_stats(student_schedules, st)
       IN  IF schedule.questions_answered = 0
           THEN stats.accuracy = None
           ELSE stats.accuracy = [dividend |-> schedule.questions_correct,
                                  divisor |-> schedule.questions_answered]

\* C27: when the model is not loaded or the prediction raises,
\* update_student_engagement completes, the prediction is Moderate with
\* confidence 0.5, the student's label becomes Moderate in the schedule and
\* in the session's map, and the next question is scheduled with a delay of
\* the Moderate interval.  Stated of the call in every reachable state, and
\* of every schedule whose last label came from the fallback.
C27_ClassifierUnavailable ==
    /\ \A st \in DOMAIN student_schedules, outcome \in ModelOutcomes,
          is_correct \in BOOLEAN, rtt_ms \in Rtts :
          (~model_loaded \/ outcome.raises) =>
             LET prediction == predict(model_loaded, outcome)
             IN  /\ prediction.engagement_level = "Moderate"
                 /\ prediction.confidence = 50
                 /\ \A d \in Draws(prediction.engagement_level) :
                        LET r == update_student_engagement(
                                     active_sessions, student_schedules, st,
                                     is_correct, rtt_ms, prediction, d, now)
                            after == r.schedules[st]
                        IN  /\ after.engagement_level = "Moderate"
                            /\ r.sessions[after.session_id].students[st] = "Moderate"
                            /\ after.questions_answered =
                                   student_schedules[st].questions_answered + 1
                            /\ after.next_question_time - now \in
                                   INTERVALS["Moderate"][1]..INTERVALS["Moderate"][2]
    /\ \A st \in DOMAIN student_schedules :
          student_schedules[st].predicted = "fallback" =>
             /\ student_schedules[st].engagement_level = "Moderate"
             /\ student_schedules[st].delay \in
                    INTERVALS["Moderate"][1]..INTERVALS["Moderate"][2]

\* s1, added as Active, answered after time 0 while the predictor fell
\* back: it is Moderate and scheduled 300 to 480 seconds after the answer.
C27_Witness ==
    /\ "s1" \in DOMAIN student_schedules
    /\ student_schedules["s1"].predicted = "fallback"
    /\ student_schedules["s1"].engagement_history = <<"Active", "Moderate">>
    /\ student_schedules["s1"].next_question_time - student_schedules["s1"].delay > 0
    /\ active_sessions["S1"].students["s1"] = "Moderate"

\* C28: every schedule's engagement_history is non-empty, ends with the
\* schedule's engagement_level and has 1 + questions_answered elements, and
\* update_student_engagement appends exactly the predicted label to it,
\* changed or not.
C28_HistoryAppendOnly ==
    /\ \A st \in DOMAIN student_schedules :
          LET schedule == student_schedules[st]
          IN  /\ Len(schedule.engagement_history) >= 1
              /\ schedule.engagement_history[Len(schedule.engagement_history)] =
                     schedule.engagement_level
              /\ Len(schedule.engagement_history) = 1 + schedule.questions_answered
    /\ \A st \in DOMAIN student_schedules, outcome \in ModelOutcomes,
          is_correct \in BOOLEAN, rtt_ms \in Rtts :
          LET prediction == predict(model_loaded, outcome)
          IN  \A d \in Draws(prediction.engagement_level) :
                 update_student_engagement(
                     active_sessions, student_schedules, st,
                     is_correct, rtt_ms, prediction, d, now
                 ).schedules[st].engagement_history =
                 Append(student_schedules[st].engagement_history,
                        prediction.engagement_level)

\* s1 answered and the model returned the label it already had; s2
\* answered and was reclassified.
C28_Witness ==
    /\ {"s1", "s2"} \subseteq DOMAIN student_schedules
    /\ student_schedules["s1"].engagement_history = <<"Active", "Active">>
    /\ student_schedules["s1"].questions_answered = 1
    /\ student_schedules["s2"].engagement_history = <<"Active", "Passive">>

\* ------------------------------------------------------------------------
\* Stale disconnects
\* ------------------------------------------------------------------------
\* C29: when a student's entry in a room holds a newer connection of the
\* student and is joined, the disconnect processed by the handler of the
\* student's old connection leaves the entry joined on the new connection.
C29_StaleDisconnect ==
    [][\A w \in StudentWS :
          LET k == wsRoom[w]
              s == wsStudent(w)
          IN  (/\ LeaveStep(w)
               /\ Present(session_rooms, k, s)
               /\ Entry(session_rooms, k, s).ws # w
               /\ Entry(session_rooms, k, s).status = "joined") =>
                 /\ Present(session_rooms', k, s)
                 /\ Entry(session_rooms', k, s) = Entry(session_rooms, k, s)]_vars

\* ------------------------------------------------------------------------
\* Orphan schedules
\* ------------------------------------------------------------------------
\* The students whose schedule names the session
ScheduledIn(session_id) ==
    {st \in DOMAIN student_schedules : student_schedules[st].session_id = session_id}

RECURSIVE SumSent(_)
SumSent(students) ==
    IF students = {} THEN 0
    ELSE LET st == CHOOSE x \in students : TRUE
         IN  student_schedules[st].questions_sent + SumSent(students \ {st})

\* C30: every schedule's session_id is the id of an active session, and each
\* active session's cumulative questions_sent is at least the sum of
\* questions_sent over the schedules that name it.
C30_NoOrphanSchedules ==
    /\ \A st \in DOMAIN student_schedules :
          student_schedules[st].session_id \in DOMAIN active_sessions
    /\ \A session_id \in DOMAIN active_sessions :
          active_sessions[session_id].questions_sent >= SumSent(ScheduledIn(session_id))

\* A student was moved to a second session after a question was sent in the
\* first, whose counter now exceeds the sum over its remaining schedules,
\* while the second session has a schedule with a question sent.
C30_Witness ==
    /\ DOMAIN active_sessions = SessionIds
    /\ DOMAIN student_schedules = ScheduledStudents
    /\ ScheduledIn("S1") = {}
    /\ active_sessions["S1"].questions_sent > 0
    /\ "s1" \in DOMAIN active_sessions["S1"].students
    /\ SumSent(ScheduledIn("S2")) > 0
    /\ active_sessions["S2"].questions_sent = SumSent(ScheduledIn("S2"))

====
